---- MODULE Spec2Model ----
(***************************************************************************)
(* A model of the DOM measurement utilities of this repository:            *)
(*   TextOverflowDetector   (src/TextOverflowDetector.js)                  *)
(*   ScrollbarWidthDetector (src/ScrollbarWidthDetector.js)                *)
(*                                                                         *)
(* The host document is an oracle for geometry and computed style.  A page *)
(* holds one element, reachable by reference or by the selector "#el".     *)
(* Widths that JavaScript holds as fractional numbers are kept in HALF     *)
(* PIXELS (an integer h stands for h/2 px); widths the platform reports as *)
(* integers (offsetWidth) are kept in whole pixels.  Result.timestamp      *)
(* (Date.now()) is not modelled.                                           *)
(***************************************************************************)
EXTENDS Integers, Sequences, FiniteSets, TLC

\* ------------------------------------------------------------------ bounds
MaxPx == 2        \* largest offsetWidth / per-character width, in px
MaxPad == 1       \* largest padding, in half pixels
MaxLen == 1       \* longest text, in characters
MaxLeaks == 2     \* most scratch nodes left attached before calls stop
MaxTargets == 2   \* longest detectMultiple argument
MaxDebounce == 2  \* largest debounce option, in milliseconds
MaxTime == 4      \* the clock stops here
MaxBatches == 3   \* most mutation batches delivered to one subscription
MaxBar == 2       \* largest probe width, in px

VARIABLES
  page,            \* the document's element: text, geometry, style, fault
  measureElement,  \* TextOverflowDetector._measureElement: node id, 0 = null
  body,            \* scratch nodes that are children of document.body
  lastCall,        \* the last public call: its arguments and its outcome
  \* ---- one observe() subscription
  sub,             \* "none", "active", "disconnected" or "threw"
  subOpts,         \* the options observe() resolved: immediate, debounce
  timeoutId,       \* the closure's timeoutId, 0 = undefined
  timers,          \* the platform's pending timers: [id, due]
  timerSeq,        \* the id the last setTimeout returned
  now,             \* the clock, in milliseconds
  hist,            \* what happened to the subscription, in order
  delivered,       \* the Result the last callback invocation received
  \* ---- ScrollbarWidthDetector
  cachedWidth,     \* _cachedWidth: <<>> = null, <<w>> = w
  probes,          \* probe elements that are children of document.body
  firstCached,     \* what the first getWidth(true) since the last
                   \* clearCache() returned: <<>> = none has returned
  sbCall           \* the last ScrollbarWidthDetector call

detectorVars == <<page, measureElement, body, lastCall>>
observerVars == <<sub, subOpts, timeoutId, timers, timerSeq, now, hist, delivered>>
scrollbarVars == <<cachedWidth, probes, firstCached, sbCall>>

\* ------------------------------------------------------- JavaScript values
NULL == "null"
ELEMENT == "el"
Selector == "#el"

Chars == {" ", "x"}
Texts == UNION {[1..n -> Chars] : n \in 0..MaxLen}

\* An optional string argument: null, or a string.
NoText == [isNull |-> TRUE, chars |-> <<>>]
Str(s) == [isNull |-> FALSE, chars |-> s]
TextArgs == {NoText} \cup {Str(s) : s \in Texts}

\* JavaScript truthiness of an optional string: null and "" are falsy.
Truthy(t) == ~t.isNull /\ t.chars # <<>>

\* String.prototype.trim, and the test !s.trim()
RECURSIVE TrimLeft(_)
TrimLeft(s) == IF s # <<>> /\ Head(s) = " " THEN TrimLeft(Tail(s)) ELSE s
RECURSIVE TrimRight(_)
TrimRight(s) ==
  IF s # <<>> /\ s[Len(s)] = " " THEN TrimRight(SubSeq(s, 1, Len(s) - 1)) ELSE s
Trim(s) == TrimRight(TrimLeft(s))

\* Math.round on a value in half pixels, giving whole pixels:
\* Math.round(x) = floor(x + 0.5), so round(h/2) = floor((h + 1) / 2).
Round(h) == (h + 1) \div 2
Max0(h) == IF h > 0 THEN h ELSE 0

\* A computed padding is "" (element not rendered) or "<h/2>px";
\* parseFloat(css) || 0 maps "" (NaN) and "0px" to 0.
CssPads == {<<>>} \cup {<<h>> : h \in 0..MaxPad}
ParseFloatOr0(css) == IF css = <<>> THEN 0 ELSE css[1]

\* The targets a caller can pass.
Targets ==
  { [kind |-> "element", sel |-> ""],
    [kind |-> "selector", sel |-> Selector],
    [kind |-> "selector", sel |-> "#missing"],
    [kind |-> "other", sel |-> ""] }

\* Which platform query throws on this page, if any.
\*   range        document.createRange / setStart / getBoundingClientRect
\*   offsetWidth  element.offsetWidth
\*   style        every window.getComputedStyle(element)
\*   styleAgain   the second window.getComputedStyle(element) of one call
\*   scratchWidth the scratch node's offsetWidth
\*   append       document.body.appendChild
Faults ==
  {"none", "range", "offsetWidth", "style", "styleAgain", "scratchWidth", "append"}

Pages ==
  { p \in [ text : Texts, childCount : 0..1, rangeW : 0..(2 * MaxPx),
            offsetW : 0..MaxPx, padL : CssPads, padR : CssPads,
            charW : 1..MaxPx, fault : Faults ] :
      /\ (p.childCount = 0 => p.text = <<>>)
      /\ (p.text # <<>> => p.childCount = 1)
      \* offsetWidth includes the padding
      /\ ParseFloatOr0(p.padL) + ParseFloatOr0(p.padR) <= 2 * p.offsetW }

\* ------------------------------------------------------------ call results
Returned(r) == [thrown |-> FALSE, value |-> r]
Thrown(msg) == [thrown |-> TRUE, value |-> msg]

NoDetails == [none |-> TRUE]

CreateResult(isOverflowing, error, details) ==
  [isOverflowing |-> isOverflowing, error |-> error, details |-> details]

GetElement(target) ==
  IF target.kind = "selector"
    THEN (IF target.sel = Selector THEN ELEMENT ELSE NULL)
    ELSE (IF target.kind = "element" THEN ELEMENT ELSE NULL)

\* availableWidth = containerWidth - paddingLeft - paddingRight, in half px
AvailableWidth(p) ==
  2 * p.offsetW - ParseFloatOr0(p.padL) - ParseFloatOr0(p.padR)

\* --------------------------------------------------------- detectByRange
\* The measurement with textWidth >= availableWidth as the test.
RangeMeasureNotStrict(p) ==
  IF p.fault \in {"range", "offsetWidth", "style"} THEN Thrown(p.fault)
  ELSE
    LET textWidth == p.rangeW
        availableWidth == AvailableWidth(p)
    IN Returned(CreateResult(textWidth >= availableWidth, NULL,
         [ textWidth |-> Round(textWidth),
           containerWidth |-> p.offsetW,
           availableWidth |-> Round(availableWidth),
           overflowAmount |-> Round(Max0(textWidth - availableWidth)) ]))

\* The body of the try block: an outcome that is a Result or an exception.
RangeMeasure(p) ==
  IF p.fault = "range" THEN Thrown("range")
  ELSE IF p.fault = "offsetWidth" THEN Thrown("offsetWidth")
  ELSE IF p.fault = "style" THEN Thrown("getComputedStyle")
  ELSE
    LET textWidth == p.rangeW
        availableWidth == AvailableWidth(p)
        isOverflowing == textWidth > availableWidth
        overflowAmount == Max0(textWidth - availableWidth)
    IN Returned(CreateResult(isOverflowing, NULL,
         [ textWidth |-> Round(textWidth),
           containerWidth |-> p.offsetW,
           availableWidth |-> Round(availableWidth),
           overflowAmount |-> Round(overflowAmount) ]))

\* catch (error) { return _createResult(false, `<prefix>: ${error.message}`) }
Catch(outcome, prefix) ==
  IF outcome.thrown THEN Returned(CreateResult(FALSE, prefix, NoDetails))
  ELSE outcome

\* detectByRange with the measurement outside the try block.
DetectByRangeUncaught(p, target) ==
  IF GetElement(target) = NULL
    THEN Returned(CreateResult(FALSE, "Element not found", NoDetails))
  ELSE IF p.childCount = 0
    THEN Returned(CreateResult(FALSE, "No text content", NoDetails))
  ELSE RangeMeasure(p)

DetectByRange(p, target) ==
  IF GetElement(target) = NULL
    THEN Returned(CreateResult(FALSE, "Element not found", NoDetails))
  ELSE IF p.childCount = 0
    THEN Returned(CreateResult(FALSE, "No text content", NoDetails))
  ELSE Catch(RangeMeasure(p), "Range detection failed")

\* ---------------------------------------------------------- scratch nodes
\* The DOM state the detector touches: dom.measureElement is the cached
\* template (0 = null), dom.body the scratch nodes attached to document.body.
\* A new node takes the smallest id that no live node holds.
Fresh(used) ==
  CHOOSE n \in 1..(Cardinality(used) + 1) :
    n \notin used /\ \A m \in 1..(n - 1) : m \in used

\* _getMeasureElement: create the template once, hand out a clone of it.
GetMeasureElement(dom) ==
  LET template == IF dom.measureElement = 0 THEN Fresh(dom.body)
                  ELSE dom.measureElement
      clone == Fresh(dom.body \cup {template})
  IN [ dom |-> [measureElement |-> template, body |-> dom.body],
       node |-> clone ]

\* _copyTextStyles: one getComputedStyle(source), then seven assignments.
CopyTextStyles(p) == IF p.fault = "style" THEN Thrown("getComputedStyle") ELSE Returned(NULL)

\* const testText = text || element.textContent || element.innerText
TestText(p, text) == IF Truthy(text) THEN text.chars ELSE p.text

\* The try block of detectByClone, from _getMeasureElement to the return.
\* Gives the outcome and the DOM state where the block was left.
CloneMeasure(dom, p, testText) ==
  LET got == GetMeasureElement(dom)
      node == got.node
      attached == [got.dom EXCEPT !.body = @ \cup {node}]
      left(d, why) == [out |-> Thrown(why), dom |-> d, created |-> {node}]
  IN IF CopyTextStyles(p).thrown THEN left(got.dom, "getComputedStyle")
     ELSE IF p.fault = "append" THEN left(got.dom, "appendChild")
     ELSE IF p.fault = "scratchWidth" THEN left(attached, "offsetWidth")
     ELSE IF p.fault = "offsetWidth" THEN left(attached, "offsetWidth")
     ELSE IF p.fault = "styleAgain" THEN left(attached, "getComputedStyle")
     ELSE
       LET textWidth == p.charW * Len(testText)
           availableWidth == AvailableWidth(p)
           isOverflowing == 2 * textWidth > availableWidth
           overflowAmount == Max0(2 * textWidth - availableWidth)
       IN [ out |-> Returned(CreateResult(isOverflowing, NULL,
                      [ textWidth |-> textWidth,
                        containerWidth |-> p.offsetW,
                        availableWidth |-> Round(availableWidth),
                        overflowAmount |-> Round(overflowAmount),
                        textLength |-> Len(testText) ])),
            \* document.body.removeChild(measureElement)
            dom |-> [attached EXCEPT !.body = @ \ {node}],
            created |-> {node} ]

\* The catch block of detectByClone: it looks at the cached template
\* (this._measureElement), not at the clone that the try block attached.
CloneCatch(run) ==
  LET m == run.dom.measureElement
  IN [ out |-> Returned(CreateResult(FALSE, "Clone detection failed", NoDetails)),
       dom |-> IF m # 0 /\ m \in run.dom.body
                 THEN [run.dom EXCEPT !.body = @ \ {m}]
                 ELSE run.dom,
       created |-> run.created ]

DetectByClone(dom, p, target, text) ==
  IF GetElement(target) = NULL
    THEN [ out |-> Returned(CreateResult(FALSE, "Element not found", NoDetails)),
           dom |-> dom, created |-> {} ]
  ELSE IF Trim(TestText(p, text)) = <<>>
    THEN [ out |-> Returned(CreateResult(FALSE, "No text content", NoDetails)),
           dom |-> dom, created |-> {} ]
  ELSE LET run == CloneMeasure(dom, p, TestText(p, text))
       IN IF run.out.thrown THEN CloneCatch(run) ELSE run

\* ------------------------------------------------------------------ detect
\* if (rangeResult.error): null and "" are falsy.
ErrorSet(result) == result.error # NULL /\ result.error # ""

\* detect with `text !== null` as the test for an override.
DetectAnyString(dom, p, target, text) ==
  IF ~text.isNull THEN DetectByClone(dom, p, target, text)
  ELSE LET rangeResult == DetectByRange(p, target)
       IN IF ~rangeResult.thrown /\ ErrorSet(rangeResult.value)
            THEN DetectByClone(dom, p, target, NoText)
          ELSE [out |-> rangeResult, dom |-> dom, created |-> {}]

Detect(dom, p, target, text) ==
  IF Truthy(text) THEN DetectByClone(dom, p, target, text)
  ELSE LET rangeResult == DetectByRange(p, target)
       IN IF rangeResult.thrown
            THEN [out |-> rangeResult, dom |-> dom, created |-> {}]
          ELSE IF ErrorSet(rangeResult.value)
            THEN DetectByClone(dom, p, target, NoText)
          ELSE [out |-> rangeResult, dom |-> dom, created |-> {}]

\* targets.map(target => this.detect(target)): left to right, each call
\* starting from the DOM the previous one left; an exception ends the map.
RECURSIVE MapDetect(_, _, _, _, _)
MapDetect(dom, p, targets, done, created) ==
  IF targets = <<>>
    THEN [out |-> Returned(done), dom |-> dom, created |-> created]
  ELSE LET r == Detect(dom, p, Head(targets), NoText)
       IN IF r.out.thrown
            THEN [out |-> r.out, dom |-> r.dom, created |-> created \cup r.created]
          ELSE MapDetect(r.dom, p, Tail(targets), Append(done, r.out.value),
                         created \cup r.created)

\* detectMultiple that stops at the first target that reports an error.
RECURSIVE MapDetectUntilError(_, _, _, _, _)
MapDetectUntilError(dom, p, targets, done, created) ==
  IF targets = <<>>
    THEN [out |-> Returned(done), dom |-> dom, created |-> created]
  ELSE LET r == Detect(dom, p, Head(targets), NoText)
       IN IF r.out.thrown \/ r.out.value.error # NULL
            THEN [out |-> Returned(done), dom |-> r.dom, created |-> created]
          ELSE MapDetectUntilError(r.dom, p, Tail(targets),
                                   Append(done, r.out.value), created \cup r.created)
DetectMultipleUntilError(dom, p, targets) ==
  MapDetectUntilError(dom, p, targets, <<>>, {})

DetectMultiple(dom, p, targets) == MapDetect(dom, p, targets, <<>>, {})

\* cleanup(): remove the template if attached, forget it.
Cleanup(dom) ==
  [ measureElement |-> 0,
    body |-> IF dom.measureElement # 0 /\ dom.measureElement \in dom.body
               THEN dom.body \ {dom.measureElement}
               ELSE dom.body ]

\* ----------------------------------------------------- detector operations
Dom == [measureElement |-> measureElement, body |-> body]

TargetLists == UNION {[1..n -> Targets] : n \in 0..MaxTargets}

Finish(op, target, text, run) ==
  /\ measureElement' = run.dom.measureElement
  /\ body' = run.dom.body
  /\ lastCall' = [ op |-> op, target |-> target, text |-> text,
                   out |-> run.out, created |-> run.created ]
  /\ UNCHANGED <<page, observerVars, scrollbarVars>>

CallDetectByRange ==
  \E target \in Targets :
    LET run == [out |-> DetectByRange(page, target), dom |-> Dom, created |-> {}]
    IN /\ measureElement' = run.dom.measureElement
       /\ body' = run.dom.body
       /\ lastCall' = [ op |-> "detectByRange", target |-> target, text |-> NoText,
                        out |-> run.out, created |-> run.created ]
       /\ UNCHANGED <<page, observerVars, scrollbarVars>>

CallDetectByClone ==
  /\ Cardinality(body) < MaxLeaks
  /\ \E target \in Targets, text \in TextArgs :
       Finish("detectByClone", target, text, DetectByClone(Dom, page, target, text))

CallDetect ==
  /\ Cardinality(body) < MaxLeaks
  /\ \E target \in Targets, text \in TextArgs :
       Finish("detect", target, text, Detect(Dom, page, target, text))

CallDetectMultiple ==
  /\ Cardinality(body) < MaxLeaks
  /\ \E targets \in TargetLists :
       Finish("detectMultiple", targets, NoText, DetectMultiple(Dom, page, targets))

CallCleanup ==
  /\ measureElement' = Cleanup(Dom).measureElement
  /\ body' = Cleanup(Dom).body
  /\ lastCall' = [ op |-> "cleanup", target |-> NULL, text |-> NoText,
                   out |-> Returned(NULL), created |-> {} ]
  /\ UNCHANGED <<page, observerVars, scrollbarVars>>

NoCall ==
  [ op |-> "none", target |-> NULL, text |-> NoText, out |-> Returned(NULL),
    created |-> {} ]


\* ----------------------------------------------------------------- observe
\* const element = this._getElement(target); if (!element) throw ...
ObserveThrows(target) == GetElement(target) = NULL

\* const { immediate = true, debounce = 100 } = options; every modelled call
\* gives debounce, and gives or omits immediate.
ImmediateOptions == {"undefined", "true", "false"}
Immediate(option) == IF option = "undefined" THEN TRUE ELSE option = "true"

\* The closure state that debouncedCallback works on.
Closure == [timeoutId |-> timeoutId, timers |-> timers, timerSeq |-> timerSeq]

\* clearTimeout(id): drops the pending timer with that id, if there is one.
ClearTimeout(pending, id) == {t \in pending : t.id # id}

\* debouncedCallback with the clearTimeout left out.
DebouncedCallbackStacking(c, debounce, at) ==
  [ timeoutId |-> c.timerSeq + 1,
    timers |-> c.timers \cup {[id |-> c.timerSeq + 1, due |-> at + debounce]},
    timerSeq |-> c.timerSeq + 1 ]

\* debouncedCallback: clearTimeout(timeoutId); timeoutId = setTimeout(.., debounce)
DebouncedCallback(c, debounce, at) ==
  [ timeoutId |-> c.timerSeq + 1,
    timers |-> ClearTimeout(c.timers, c.timeoutId)
                 \cup {[id |-> c.timerSeq + 1, due |-> at + debounce]},
    timerSeq |-> c.timerSeq + 1 ]

SetClosure(c) ==
  /\ timeoutId' = c.timeoutId
  /\ timers' = c.timers
  /\ timerSeq' = c.timerSeq

Event(ev) == [ev |-> ev, at |-> now]

\* The platform runs a timer when it is due: nothing else happens at an
\* instant while a due timer is waiting, and the clock does not pass it.
TimerDue == \E t \in timers : t.due <= now

ObserverInit ==
  /\ sub = "none"
  /\ subOpts = [immediate |-> TRUE, debounce |-> 0]
  /\ timeoutId = 0
  /\ timers = {}
  /\ timerSeq = 0
  /\ now = 0
  /\ hist = <<>>
  /\ delivered = NoDetails

\* observe(target, callback, {immediate, debounce})
Observe ==
  /\ sub = "none"
  /\ \E target \in Targets, immediate \in ImmediateOptions, debounce \in 0..MaxDebounce :
       IF ObserveThrows(target)
         THEN /\ sub' = "threw"
              /\ hist' = Append(hist, Event("throw"))
              /\ UNCHANGED <<subOpts, timeoutId, timers, timerSeq>>
         ELSE /\ sub' = "active"
              /\ subOpts' = [immediate |-> Immediate(immediate), debounce |-> debounce]
              /\ hist' = Append(hist, Event("observe"))
              /\ IF Immediate(immediate)
                   THEN SetClosure(DebouncedCallback(Closure, debounce, now))
                   ELSE UNCHANGED <<timeoutId, timers, timerSeq>>
  /\ UNCHANGED <<now, delivered, detectorVars, scrollbarVars>>

Batches == Cardinality({i \in DOMAIN hist : hist[i].ev = "batch"})

\* The MutationObserver delivers a batch of mutations of the element.
Mutation ==
  /\ sub = "active"
  /\ ~TimerDue
  /\ Batches < MaxBatches
  /\ SetClosure(DebouncedCallback(Closure, subOpts.debounce, now))
  /\ hist' = Append(hist, Event("batch"))
  /\ UNCHANGED <<sub, subOpts, now, delivered, detectorVars, scrollbarVars>>

\* A due timer runs: const result = this.detect(element); callback(result, element)
TimerFire ==
  /\ \E t \in timers :
       /\ t.due <= now
       /\ timers' = timers \ {t}
  /\ LET run == Detect(Dom, page, [kind |-> "element", sel |-> ""], NoText)
     IN /\ measureElement' = run.dom.measureElement
        /\ body' = run.dom.body
        /\ delivered' = run.out.value
  /\ hist' = Append(hist, Event("callback"))
  /\ UNCHANGED <<sub, subOpts, timeoutId, timerSeq, now, page, lastCall, scrollbarVars>>

\* observer.disconnect() on the MutationObserver that observe() returned.
Disconnect ==
  /\ sub = "active"
  /\ ~TimerDue
  /\ sub' = "disconnected"
  /\ hist' = Append(hist, Event("disconnect"))
  /\ UNCHANGED <<subOpts, timeoutId, timers, timerSeq, now, delivered,
                 detectorVars, scrollbarVars>>

Tick ==
  /\ ~TimerDue
  /\ now < MaxTime
  /\ now' = now + 1
  /\ UNCHANGED <<sub, subOpts, timeoutId, timers, timerSeq, hist, delivered,
                 detectorVars, scrollbarVars>>

\* ------------------------------------------------ ScrollbarWidthDetector
\* What the layout engine answers during one measurement, and which step of
\* it throws, if any.
ProbeFaults == {"none", "styles", "append", "outerWidth", "createInner", "innerWidth"}
Layouts == [outerW : 0..MaxBar, innerW : 0..MaxBar, fault : ProbeFaults]

\* _measureScrollbarWidth with the removal at the end of the try block.
MeasureScrollbarWidthNoFinally(attached, layout) ==
  IF layout.fault \in {"styles", "append"}
    THEN [out |-> Thrown(layout.fault), probes |-> attached]
  ELSE IF layout.fault \in {"outerWidth", "createInner", "innerWidth"}
    THEN [out |-> Thrown(layout.fault), probes |-> attached + 1]
  ELSE [out |-> Returned(Max0(layout.outerW - layout.innerW)), probes |-> attached]

\* _measureScrollbarWidth: the probe is appended before the try block and
\* removed in its finally block.
MeasureScrollbarWidth(attached, layout) ==
  IF layout.fault \in {"styles", "append"}
    THEN [out |-> Thrown(layout.fault), probes |-> attached]
  ELSE LET appended == attached + 1
           measured ==
             IF layout.fault \in {"outerWidth", "createInner", "innerWidth"}
               THEN Thrown(layout.fault)
               ELSE Returned(Max0(layout.outerW - layout.innerW))
       IN [out |-> measured, probes |-> appended - 1]

\* getWidth with `this._cachedWidth` as the test for a cached value.
GetWidthCacheTruthy(cache, attached, useCache, layout) ==
  IF useCache /\ cache # <<>> /\ cache # <<0>>
    THEN [out |-> Returned(cache[1]), cache |-> cache, probes |-> attached,
          measured |-> FALSE]
  ELSE LET m == MeasureScrollbarWidth(attached, layout)
       IN [ out |-> m.out,
            cache |-> IF ~m.out.thrown /\ useCache THEN <<m.out.value>> ELSE cache,
            probes |-> m.probes, measured |-> TRUE ]

GetWidth(cache, attached, useCache, layout) ==
  IF useCache /\ cache # <<>>
    THEN [out |-> Returned(cache[1]), cache |-> cache, probes |-> attached,
          measured |-> FALSE]
  ELSE LET m == MeasureScrollbarWidth(attached, layout)
       IN [ out |-> m.out,
            cache |-> IF ~m.out.thrown /\ useCache THEN <<m.out.value>> ELSE cache,
            probes |-> m.probes, measured |-> TRUE ]

NoLayout == [outerW |-> 0, innerW |-> 0, fault |-> "none"]

ScrollbarInit ==
  /\ cachedWidth = <<>>
  /\ probes = 0
  /\ firstCached = <<>>
  /\ sbCall = [ op |-> "none", useCache |-> FALSE, layout |-> NoLayout,
                out |-> Returned(0), measured |-> FALSE,
                cacheBefore |-> <<>>, firstCachedBefore |-> <<>> ]

CallGetWidth ==
  \E useCache \in BOOLEAN, layout \in Layouts :
    LET r == GetWidth(cachedWidth, probes, useCache, layout)
    IN /\ cachedWidth' = r.cache
       /\ probes' = r.probes
       /\ firstCached' = IF useCache /\ ~r.out.thrown /\ firstCached = <<>>
                           THEN <<r.out.value>> ELSE firstCached
       /\ sbCall' = [ op |-> "getWidth", useCache |-> useCache, layout |-> layout,
                      out |-> r.out, measured |-> r.measured,
                      cacheBefore |-> cachedWidth,
                      firstCachedBefore |-> firstCached ]
       /\ UNCHANGED <<detectorVars, observerVars>>

\* clearCache()
CallClearCache ==
  /\ cachedWidth' = <<>>
  /\ firstCached' = <<>>
  /\ sbCall' = [ op |-> "clearCache", useCache |-> FALSE, layout |-> NoLayout,
                 out |-> Returned(0), measured |-> FALSE,
                 cacheBefore |-> cachedWidth, firstCachedBefore |-> firstCached ]
  /\ UNCHANGED <<probes, detectorVars, observerVars>>

\* ------------------------------------------------------ detector behaviours
\* Pages for the resource and dispatch properties: every text and fault,
\* two renderings of the text (it fits, it does not fit).
CoarsePages ==
  { p \in Pages : /\ p.offsetW = 1 /\ p.charW = 1
                  /\ p.padL = <<>> /\ p.padR = <<0>>
                  /\ p.rangeW \in {0, 2 * MaxPx} }

\* Pages for the numeric properties: every geometry, no fault.
MeasurePages ==
  { p \in Pages : /\ p.fault = "none" /\ p.childCount = 1
                  /\ p.text = [i \in 1..MaxLen |-> "x"] }

DetectorInit ==
  /\ measureElement = 0
  /\ body = {}
  /\ lastCall = NoCall

DetectorNext ==
  \/ CallDetectByRange
  \/ CallDetectByClone
  \/ CallDetect
  \/ CallCleanup

vars == <<detectorVars, observerVars, scrollbarVars>>

Init == page \in CoarsePages /\ DetectorInit /\ ObserverInit /\ ScrollbarInit
Next == DetectorNext
Spec == Init /\ [][Next]_vars

\* A client that measures in batches.
NextBatch == CallDetectMultiple \/ CallCleanup
SpecBatch == Init /\ [][NextBatch]_vars

InitMeasure ==
  page \in MeasurePages /\ DetectorInit /\ ObserverInit /\ ScrollbarInit
NextMeasure == CallDetectByRange \/ CallDetectByClone \/ CallDetect
SpecMeasure == InitMeasure /\ [][NextMeasure]_vars

\* A client that subscribes to the element's mutations.
ObservePages ==
  { p \in CoarsePages : p.fault = "none" /\ p.childCount = 1 /\ p.rangeW = 0 }
InitObserve ==
  page \in ObservePages /\ DetectorInit /\ ObserverInit /\ ScrollbarInit
NextObserve == Observe \/ Mutation \/ TimerFire \/ Disconnect \/ Tick
SpecObserve == InitObserve /\ [][NextObserve]_vars

\* A client of ScrollbarWidthDetector.
NextScrollbar == CallGetWidth \/ CallClearCache
SpecScrollbar == InitObserve /\ [][NextScrollbar]_vars

\* ================================================================ properties
Found(target) == GetElement(target) = ELEMENT
IsError(result) == result.error # NULL
Blank(chars) == Trim(chars) = <<>>
MeasureCalls == {"detectByRange", "detectByClone", "detect"}

\* A query that detectByRange, resp. detectByClone, executes throws.
RangeThrows == page.fault \in {"range", "offsetWidth", "style"}
CloneThrows ==
  page.fault \in {"style", "append", "scratchWidth", "offsetWidth", "styleAgain"}

\* ---------------------------------------------------------------------- C1
\* C1: after detectByClone returns, with a success Result or an error
\* Result, no scratch node that the call created is attached to the document.
C1_NoScratchNodeAfterDetectByClone ==
  lastCall.op = "detectByClone" => lastCall.created \cap body = {}

\* ---------------------------------------------------------------------- C9
\* C9: never more than one scratch node is attached, and after cleanup()
\* none is attached and the cached scratch element is null.
C9_CleanupLeavesNoScratchNode ==
  /\ Cardinality(body) <= 1
  /\ lastCall.op = "cleanup" => (body = {} /\ measureElement = 0)

\* ---------------------------------------------------------------------- C5
\* C5 as stated: detect with any string as text, the empty string included,
\* returns what detectByClone(target, text) returns; detect without a text
\* returns the range result, or detectByClone(target) iff that carries an
\* error.
C5_DetectDispatchAnyString ==
  lastCall.op = "detect" =>
    LET range == DetectByRange(page, lastCall.target)
    IN lastCall.out =
         IF ~lastCall.text.isNull
           THEN DetectByClone(Dom, page, lastCall.target, lastCall.text).out
         ELSE IF IsError(range.value)
           THEN DetectByClone(Dom, page, lastCall.target, NoText).out
         ELSE range

\* C5 amended: a non-empty text goes to detectByClone(target, text); null
\* and the empty string go to detectByRange(target), and to
\* detectByClone(target) iff the range result carries an error.
C5_DetectDispatchNonEmptyString ==
  lastCall.op = "detect" =>
    LET range == DetectByRange(page, lastCall.target)
    IN lastCall.out =
         IF ~lastCall.text.isNull /\ lastCall.text.chars # <<>>
           THEN DetectByClone(Dom, page, lastCall.target, lastCall.text).out
         ELSE IF IsError(range.value)
           THEN DetectByClone(Dom, page, lastCall.target, NoText).out
         ELSE range

\* detect(element, "") returned the range measurement of the element's text.
C5_Witness ==
  /\ lastCall.op = "detect"
  /\ lastCall.text = Str(<<>>)
  /\ Found(lastCall.target)
  /\ ~IsError(lastCall.out.value)
  /\ "textLength" \notin DOMAIN lastCall.out.value.details

\* ---------------------------------------------------------------------- C6
\* The text a call measures.
MeasuredText ==
  IF lastCall.op = "detectByRange" THEN page.text
  ELSE TestText(page, lastCall.text)

\* A query that the call executed threw.
QueryThrew ==
  LET rangeRan == Found(lastCall.target) /\ page.childCount > 0
      cloneRan == Found(lastCall.target) /\ ~Blank(TestText(page, lastCall.text))
  IN IF lastCall.op = "detectByRange" THEN rangeRan /\ RangeThrows
     ELSE IF lastCall.op = "detectByClone" THEN cloneRan /\ CloneThrows
     ELSE IF Truthy(lastCall.text) THEN cloneRan /\ CloneThrows
     ELSE (rangeRan /\ RangeThrows) \/ (cloneRan /\ CloneThrows)

RangeFails(target) == ~Found(target) \/ page.childCount = 0 \/ RangeThrows
CloneFails(target, text) ==
  ~Found(target) \/ Blank(TestText(page, text)) \/ CloneThrows

Measured == lastCall.op \in MeasureCalls /\ ~lastCall.out.thrown
              /\ ~IsError(lastCall.out.value)
ByClone == "textLength" \in DOMAIN lastCall.out.value.details
\* The measured text width w and the available width a, in half pixels.
RawTextWidth ==
  IF ByClone THEN 2 * page.charW * Len(TestText(page, lastCall.text))
  ELSE page.rangeW
RawAvailableWidth ==
  2 * page.offsetW - ParseFloatOr0(page.padL) - ParseFloatOr0(page.padR)
Abs(n) == IF n < 0 THEN 0 - n ELSE n

\* C7 as stated: isOverflowing iff w > a; overflowAmount is 0 when w <= a
\* and is the reported textWidth minus the reported availableWidth, never
\* negative, when w > a.
C7_OverflowAmountIsReportedDifference ==
  Measured =>
    LET d == lastCall.out.value.details
    IN /\ lastCall.out.value.isOverflowing <=> RawTextWidth > RawAvailableWidth
       /\ RawTextWidth <= RawAvailableWidth => d.overflowAmount = 0
       /\ RawTextWidth > RawAvailableWidth =>
            /\ d.overflowAmount = d.textWidth - d.availableWidth
            /\ d.overflowAmount >= 0

\* C7 amended: overflowAmount is the rounded difference w - a, which is
\* within one pixel of the reported textWidth minus the reported
\* availableWidth.
C7_OverflowAmountIsRoundedDifference ==
  Measured =>
    LET d == lastCall.out.value.details
    IN /\ lastCall.out.value.isOverflowing <=> RawTextWidth > RawAvailableWidth
       /\ RawTextWidth <= RawAvailableWidth => d.overflowAmount = 0
       /\ RawTextWidth > RawAvailableWidth =>
            /\ d.overflowAmount = Round(RawTextWidth - RawAvailableWidth)
            /\ Abs(d.overflowAmount - (d.textWidth - d.availableWidth)) <= 1
            /\ d.overflowAmount >= 0

\* An overflowing measurement whose overflowAmount is not the difference of
\* the two reported widths.
C7_Witness ==
  /\ Measured
  /\ RawTextWidth > RawAvailableWidth
  /\ lastCall.out.value.details.overflowAmount #
       lastCall.out.value.details.textWidth
         - lastCall.out.value.details.availableWidth

\* ---------------------------------------------------------------------- C8
FreshDom == [measureElement |-> 0, body |-> {}]

Scheduled(i) ==
  hist[i].ev = "batch" \/ (hist[i].ev = "observe" /\ subOpts.immediate)
\* The next scheduling after hist[i], or Len(hist) + 1.
NextScheduled(i) ==
  LET later == {k \in (i + 1)..Len(hist) : Scheduled(k)}
  IN IF later = {} THEN Len(hist) + 1
     ELSE CHOOSE k \in later : \A m \in later : k <= m
CallbacksIn(i, k) == {j \in (i + 1)..(k - 1) : hist[j].ev = "callback"}

\* C2: batches that each arrive less than debounce ms after the previous one
\* produce one callback invocation, debounce ms after the last of them, and
\* at most one debounce timer is pending at any instant.
C2_OneCallbackPerBurst ==
  /\ Cardinality(timers) <= 1
  /\ \A i \in DOMAIN hist :
       Scheduled(i) =>
         LET k == NextScheduled(i)
             calls == CallbacksIn(i, k)
         IN /\ \A j \in calls : hist[j].at = hist[i].at + subOpts.debounce
            /\ Cardinality(calls) =
                 IF k <= Len(hist)
                   THEN (IF hist[k].at - hist[i].at < subOpts.debounce THEN 0 ELSE 1)
                   ELSE (IF timers = {} THEN 1 ELSE 0)
  /\ \A j \in DOMAIN hist :
       hist[j].ev = "callback" => \E i \in 1..(j - 1) : Scheduled(i)

\* Three batches one millisecond apart under a longer debounce, then the one
\* callback, debounce ms after the third.
C2_Witness ==
  /\ subOpts.debounce > 1
  /\ ~subOpts.immediate
  /\ \E i \in DOMAIN hist :
       /\ i + 3 <= Len(hist)
       /\ \A m \in 0..2 : hist[i + m].ev = "batch" /\ hist[i + m].at = hist[i].at + m
       /\ hist[i + 3].ev = "callback"
       /\ hist[i + 3].at = hist[i + 2].at + subOpts.debounce
       /\ Cardinality({j \in DOMAIN hist : hist[j].ev = "callback"}) = 1

\* ---------------------------------------------------------------------- C3
\* C3: once the subscription is disconnected no debounce timer is pending
\* and the callback is not invoked again.
C3_NoCallbackAfterDisconnect ==
  /\ sub = "disconnected" => timers = {}
  /\ \A i \in DOMAIN hist : \A j \in DOMAIN hist :
       (hist[i].ev = "disconnect" /\ i < j) => hist[j].ev # "callback"

\* ---------------------------------------------------------------------- C4
\* C4: when observe returns with immediate set, the callback has been
\* invoked, at subscription time and before any mutation batch; with
\* immediate unset no callback precedes the first batch.
C4_ImmediateCallbackAtSubscription ==
  sub \in {"active", "disconnected"} =>
    LET subscribed == CHOOSE i \in DOMAIN hist : hist[i].ev = "observe"
        first == {j \in DOMAIN hist :
                    /\ hist[j].ev = "callback"
                    /\ \A m \in 1..(j - 1) : hist[m].ev # "batch"}
    IN IF subOpts.immediate
         THEN \E j \in first : hist[j].at = hist[subscribed].at
         ELSE first = {}

\* --------------------------------------------------------------------- C10
\* C10: getWidth(true) measures only when no getWidth(true) has returned
\* since the start or the last clearCache(), and otherwise returns what that
\* call returned; getWidth(false) measures and leaves the cache alone;
\* clearCache() empties the cache; a returned width is >= 0; no probe
\* element stays attached.
C10_GetWidthCache ==
  /\ probes = 0
  /\ sbCall.op = "clearCache" => cachedWidth = <<>>
  /\ sbCall.op = "getWidth" =>
       /\ ~sbCall.out.thrown => sbCall.out.value >= 0
       /\ sbCall.useCache =>
            /\ sbCall.measured <=> sbCall.firstCachedBefore = <<>>
            /\ ~sbCall.measured =>
                 sbCall.out = Returned(sbCall.firstCachedBefore[1])
       /\ ~sbCall.useCache =>
            /\ sbCall.measured
            /\ cachedWidth = sbCall.cacheBefore
            /\ ~sbCall.out.thrown =>
                 sbCall.out.value =
                   Max0(sbCall.layout.outerW - sbCall.layout.innerW)

\* getWidth(true) answered from the cache although the layout has changed.
C10_Witness ==
  /\ sbCall.op = "getWidth"
  /\ sbCall.useCache
  /\ ~sbCall.measured
  /\ sbCall.layout.fault = "none"
  /\ sbCall.out.value # Max0(sbCall.layout.outerW - sbCall.layout.innerW)

====
